---- MODULE Spec2Model ----
(***************************************************************************)
(* Model of tailor's change-set engine and of the status/update commands   *)
(* that drive it: main (src/main.go), calculateChangeset and compare       *)
(* (pkg/commands, src/unnamed/part_000) and, for the parts of package      *)
(* openshift that are not in the tree (NewChangeset, Blank, UpdateRemote), *)
(* their description in spec.md sections 3, 4.3, 4.4 and 6.                *)
(* Three further specifications model the export command (SpecExport),     *)
(* the edit and re-encrypt commands (SpecSecrets) and the diff and apply   *)
(* commands over several context directories (SpecContexts).               *)
(***************************************************************************)
EXTENDS Integers, Sequences, FiniteSets, TLC

VARIABLES
    command,            \* the parsed command: "status" or "update"
    globalOptions,      \* cli.GlobalOptions: [NonInteractive]
    compareOptions,     \* cli.CompareOptions: Resource, UpsertOnly, ...
    pc,                 \* position of main
    filter,             \* result of getFilter, or NoFilter
    templateBasedList,  \* desired state: Key -> payload, for the keys present
    platformBasedList,  \* current state: Key -> payload, for the keys present
    changeset,          \* the changeset calculateChangeset returns
    updateRequired,     \* first result of calculateChangeset
    err,                \* the error of the run, "" when there is none
    stdout,             \* what compare printed, in order
    confirmation,       \* "none", "yes" or "no": answer to AskForConfirmation
    applyIdx,           \* UpdateRemote: index in the plan of the next step
    calls,              \* adapter calls issued by UpdateRemote, in order
    failed,             \* keys whose apply failed, with the error kind
    exitCode,           \* process exit code, NoExit while running
    exportOptions,      \* cli.ExportOptions: Resource, Selector
    errKinds,           \* the kinds the error message of getFilter names
    paramFile,          \* the parameter file on disk: its lines
    fileAtStart,        \* the parameter file as it was when the command began
    readParams,         \* the params NewParamsFromFile returned
    editedContent,      \* the buffer the params are parsed from again
    renderedContent,    \* what Render returned: the lines to write
    rand,               \* session keys drawn so far from the random source
    optionSets,         \* diff/apply: context directory -> cli.CompareOptions
    optIdx,             \* index in ContextDirs of the next option set to build
    contextDir,         \* the context directory in progress, "" when none is
    fileIdx,            \* index in the template directory of the next file
    inputs,             \* the processed templates of the context in progress
    trace,              \* the stages run so far, with their context, in order
    results             \* context directory -> what calculateChangeset returned

\* the variables only the status and update commands touch
engineVars == <<globalOptions, compareOptions, templateBasedList, platformBasedList,
                changeset, updateRequired, stdout, confirmation, applyIdx, calls, failed>>

\* the variables of the export command
exportVars == <<exportOptions, errKinds>>

\* the variables of the edit and re-encrypt commands
secretsVars == <<paramFile, fileAtStart, readParams, editedContent, renderedContent, rand>>

\* the variables of the diff and apply commands over context directories
ctxVars == <<optionSets, optIdx, contextDir, fileIdx, inputs, trace, results>>

\* the variables the status and update commands never touch
auxVars == <<exportVars, secretsVars, ctxVars>>

vars == <<command, globalOptions, compareOptions, pc, filter,
          templateBasedList, platformBasedList, changeset, updateRequired,
          err, stdout, confirmation, applyIdx, calls, failed, exitCode, auxVars>>

(***************************************************************************)
(* Bounds of the model.                                                    *)
(***************************************************************************)
\* the current and the desired list together hold at most MaxItems keys
MaxItems == 2
\* at most MaxFailures adapter calls of one apply run fail
MaxFailures == 1

\* no exit code yet: the process is running
NoExit == 0 - 1
\* the nil filter getFilter returns with an error
NoFilter == [Kinds |-> <<>>, Name |-> <<>>, Label |-> "<nil>"]

\* the export command is not the one that runs
ExportIdle ==
    /\ exportOptions = [Resource |-> <<>>, Selector |-> ""]
    /\ errKinds = <<>>

\* neither edit nor re-encrypt is the command that runs
SecretsIdle ==
    /\ paramFile = <<>>
    /\ fileAtStart = <<>>
    /\ readParams = <<>>
    /\ editedContent = <<>>
    /\ renderedContent = <<>>
    /\ rand = 0

\* neither diff nor apply over context directories is the command that runs
ContextsIdle ==
    /\ optionSets = << >>
    /\ optIdx = 1
    /\ contextDir = ""
    /\ fileIdx = 1
    /\ inputs = << >>
    /\ trace = << >>
    /\ results = << >>

(***************************************************************************)
(* Resources.  A key is <<Kind, Name>>; a payload maps the leaf pointers   *)
(* of the canonical tree to their values.  A pointer is its sequence of    *)
(* RFC 6901 reference tokens.                                              *)
(***************************************************************************)
\* the canonical kinds in ascending lexicographic order (sort.Strings)
KindOrder ==
    <<"BuildConfig", "ConfigMap", "DeploymentConfig", "ImageStream",
      "PersistentVolumeClaim", "RoleBinding", "Route", "Secret", "Service",
      "ServiceAccount", "Template">>
NameOrder == <<"a", "b">>

Keys == { <<"ConfigMap", "b">>, <<"PersistentVolumeClaim", "a">>, <<"Service", "a">> }

ClusterIP == <<"spec", "clusterIP">>
Ports == <<"spec", "ports">>
LeafOrder == <<ClusterIP, Ports>>
Leaves == { LeafOrder[i] : i \in 1..Len(LeafOrder) }
OptionalLeaves == { Ports }

\* 0 stands for an absent leaf
LeafVals(l) == IF l \in OptionalLeaves THEN {0, 1} ELSE {1, 2}
Payloads == { p \in [Leaves -> {0, 1, 2}] : \A l \in Leaves : p[l] \in LeafVals(l) }

\* the payloads the platform reports: the clusterIP it assigned and the ports
\* it holds; drift comes from the desired side
PlatformPayloads == { p \in Payloads : p[ClusterIP] = 1 /\ p[Ports] = 1 }

\* the resource lists over the keys ks with payloads of ps
ResourceLists(ks, ps) == UNION { [s -> ps] : s \in SUBSET ks }

RankIn(seq, x) == CHOOSE i \in 1..Len(seq) : seq[i] = x

\* Kind first, then Name
KeyLess(k1, k2) ==
    \/ RankIn(KindOrder, k1[1]) < RankIn(KindOrder, k2[1])
    \/ /\ k1[1] = k2[1]
       /\ RankIn(NameOrder, k1[2]) < RankIn(NameOrder, k2[2])

RECURSIVE SortKeys(_)
SortKeys(ks) ==
    IF ks = {} THEN <<>>
    ELSE LET m == CHOOSE k \in ks : \A o \in ks \ {k} : KeyLess(k, o)
         IN <<m>> \o SortKeys(ks \ {m})

SeqToSet(s) == { s[i] : i \in 1..Len(s) }

(***************************************************************************)
(* Patches (spec.md 4.1): the structural diff of two canonical payloads as *)
(* an ordered list of RFC 6902 operations.                                 *)
(***************************************************************************)
PatchOp(l, cur, des) ==
    [op |-> IF cur[l] = 0 THEN "add" ELSE IF des[l] = 0 THEN "remove" ELSE "replace",
     path |-> l,
     value |-> des[l]]

RECURSIVE DiffFrom(_, _, _)
DiffFrom(i, cur, des) ==
    IF i > Len(LeafOrder) THEN <<>>
    ELSE LET l == LeafOrder[i]
         IN (IF cur[l] = des[l] THEN <<>> ELSE <<PatchOp(l, cur, des)>>)
            \o DiffFrom(i + 1, cur, des)

\* diff(a, b): the patch list that turns cur into des
PatchList(cur, des) == DiffFrom(1, cur, des)

(***************************************************************************)
(* Preserve pointers (spec.md 4.3 step 4b, section 6 "Path preservation    *)
(* syntax"): Kind:Name:/pointer, Kind:*:/pointer or *:*:/pointer.          *)
(***************************************************************************)
\* exact, or a prefix followed by "/": the pointer's tokens start the path
PathMatch(ptr, path) ==
    /\ Len(ptr) <= Len(path)
    /\ \A i \in 1..Len(ptr) : ptr[i] = path[i]

PointerApplies(p, key) ==
    /\ p.kind \in {"*", key[1]}
    /\ p.name \in {"*", key[2]}

PreservedFor(preservePaths, key) ==
    { p.path : p \in { q \in preservePaths : PointerApplies(q, key) } }

RECURSIVE RemoveMatched(_, _)
\* the operations of ops, in order, whose path no pointer of ptrs matches
RemoveMatched(ops, ptrs) ==
    IF ops = <<>> THEN <<>>
    ELSE (IF \E q \in ptrs : PathMatch(q, Head(ops).path) THEN <<>> ELSE <<Head(ops)>>)
         \o RemoveMatched(Tail(ops), ptrs)

FilterPatches(ops, preservePaths, key) ==
    RemoveMatched(ops, PreservedFor(preservePaths, key))

(***************************************************************************)
(* Immutable path table (spec.md section 6); "*" stands for any token.     *)
(***************************************************************************)
ImmutablePaths(kind) ==
    CASE kind = "DeploymentConfig" ->
            { <<"spec", "selector">>,
              <<"spec", "triggers", "*", "imageChangeParams", "from">> }
      [] kind = "Service" -> { <<"spec", "clusterIP">> }
      [] kind = "PersistentVolumeClaim" -> { <<"spec">> }
      [] kind = "Route" -> { <<"spec", "host">> }
      [] kind = "BuildConfig" -> { <<"spec", "source", "type">> }
      [] OTHER -> {}

ImmutableMatch(ptr, path) ==
    /\ Len(ptr) <= Len(path)
    /\ \A i \in 1..Len(ptr) : ptr[i] = "*" \/ ptr[i] = path[i]

TouchesImmutable(ops, kind) ==
    \E i \in 1..Len(ops) : \E q \in ImmutablePaths(kind) : ImmutableMatch(q, ops[i].path)

(***************************************************************************)
(* Changeset (spec.md 3 and 4.3).                                          *)
(***************************************************************************)
NoResource == "absent"

EmptyChangeset ==
    [Noop |-> <<>>, Create |-> <<>>, Update |-> <<>>, Delete |-> <<>>, Recreate |-> <<>>]

Change(action, key, cur, des, patches) ==
    [Action |-> action, Key |-> key, Current |-> cur, Desired |-> des, Patches |-> patches]

\* spec.md 4.3 step 4c-4e: the change of a key of both lists whose patch list,
\* with the preserved operations removed, is P
ClassifyPatches(key, cur, des, allowRecreate, P) ==
    Change(IF P = <<>> THEN "Noop"
           ELSE IF TouchesImmutable(P, key[1])
                THEN (IF allowRecreate THEN "Recreate" ELSE "ImmutableFieldChanged")
                ELSE "Update",
           key, cur, des, P)

\* spec.md 4.3 step 4 for a key of both lists
Classify(key, cur, des, allowRecreate, preservePaths) ==
    ClassifyPatches(key, cur, des, allowRecreate,
                    FilterPatches(PatchList(cur, des), preservePaths, key))

RECURSIVE Bucket(_, _)
\* the changes of the set chs as a sequence sorted by Kind, then Name
Bucket(chs, order) ==
    IF order = <<>> THEN <<>>
    ELSE LET here == { c \in chs : c.Key = Head(order) }
         IN (IF here = {} THEN <<>> ELSE <<CHOOSE c \in here : TRUE>>)
            \o Bucket(chs, Tail(order))

\* spec.md 4.3 step 4: the changes of the keys of both lists
BothChanges(current, desired, allowRecreate, preservePaths) ==
    { Classify(k, current[k], desired[k], allowRecreate, preservePaths)
      : k \in DOMAIN current \cap DOMAIN desired }

\* spec.md 4.3 step 2
CreateChanges(current, desired) ==
    { Change("Create", k, NoResource, desired[k], <<>>) : k \in DOMAIN desired \ DOMAIN current }

\* spec.md 4.3 step 3
DeleteChanges(current, desired, upsertOnly) ==
    IF upsertOnly THEN {}
    ELSE { Change("Delete", k, current[k], NoResource, <<>>) : k \in DOMAIN current \ DOMAIN desired }

WithAction(chs, a) == { c \in chs : c.Action = a }

\* spec.md 4.3 step 4d and 5: fail on an immutable change, else sort the buckets
Buckets(both, creates, deletes, order) ==
    IF WithAction(both, "ImmutableFieldChanged") # {}
    THEN [changeset |-> EmptyChangeset, err |-> "ImmutableFieldChanged"]
    ELSE [changeset |->
             [Noop |-> Bucket(WithAction(both, "Noop"), order),
              Create |-> Bucket(creates, order),
              Update |-> Bucket(WithAction(both, "Update"), order),
              Delete |-> Bucket(deletes, order),
              Recreate |-> Bucket(WithAction(both, "Recreate"), order)],
          err |-> ""]

NewChangeset(current, desired, upsertOnly, allowRecreate, preservePaths) ==
    Buckets(BothChanges(current, desired, allowRecreate, preservePaths),
            CreateChanges(current, desired),
            DeleteChanges(current, desired, upsertOnly),
            SortKeys(DOMAIN current \cup DOMAIN desired))

\* Blank() is true iff all mutation buckets are empty
Blank(cs) ==
    /\ cs.Create = <<>>
    /\ cs.Update = <<>>
    /\ cs.Delete = <<>>
    /\ cs.Recreate = <<>>

(***************************************************************************)
(* getFilter (src/main.go).  A resource argument is the sequence of its    *)
(* comma-separated parts; a part is [kind, name, slash], slash telling     *)
(* whether the part holds a "/".                                           *)
(***************************************************************************)
kindMapping ==
    [k \in {"svc", "service", "route", "dc", "deploymentconfig", "bc",
            "buildconfig", "is", "imagestream", "pvc", "persistentvolumeclaim",
            "template", "cm", "configmap", "secret", "rolebinding",
            "serviceaccount"} |->
        CASE k \in {"svc", "service"} -> "Service"
          [] k = "route" -> "Route"
          [] k \in {"dc", "deploymentconfig"} -> "DeploymentConfig"
          [] k \in {"bc", "buildconfig"} -> "BuildConfig"
          [] k \in {"is", "imagestream"} -> "ImageStream"
          [] k \in {"pvc", "persistentvolumeclaim"} -> "PersistentVolumeClaim"
          [] k = "template" -> "Template"
          [] k \in {"cm", "configmap"} -> "ConfigMap"
          [] k = "secret" -> "Secret"
          [] k = "rolebinding" -> "RoleBinding"
          [] k = "serviceaccount" -> "ServiceAccount"]

\* a Go map lookup: the zero value "" for a missing key
Lookup(k) == IF k \in DOMAIN kindMapping THEN kindMapping[k] ELSE ""

\* strings.ToLower on the tokens the model uses
ToLower(t) ==
    CASE t = "SVC" -> "svc"
      [] t = "Pvc" -> "pvc"
      [] t = "DC" -> "dc"
      [] t = "SA" -> "sa"
      [] t = "Rb" -> "rb"
      [] t = "DeploymentConfig" -> "deploymentconfig"
      [] t = "Bar" -> "bar"
      [] OTHER -> t

Part(kind, name, slash) == [kind |-> kind, name |-> name, slash |-> slash]

RECURSIVE SortKinds(_, _)
\* the kinds of the set ks in the order of the sequence order
SortKinds(ks, order) ==
    IF order = <<>> THEN <<>>
    ELSE (IF Head(order) \in ks THEN <<Head(order)>> ELSE <<>>) \o SortKinds(ks, Tail(order))

\* getFilter that appends the kinds as the tokens come, unsorted
getFilter_InTokenOrder(kindArg, selectorFlag) ==
    LET parts == [i \in 1..Len(kindArg) |->
                    [kindArg[i] EXCEPT !.kind = ToLower(@), !.name = ToLower(@)]]
        unknownKinds == SelectSeq([i \in 1..Len(parts) |-> parts[i].kind],
                                  LAMBDA k : k \notin DOMAIN kindMapping)
        targetedKinds == { kindMapping[parts[i].kind] :
                             i \in { j \in 1..Len(parts) : parts[j].kind \in DOMAIN kindMapping } }
    IN IF Len(kindArg) = 0
       THEN [filter |-> [Kinds |-> <<>>, Name |-> <<>>, Label |-> selectorFlag], err |-> ""]
       ELSE IF \E i \in 1..Len(parts) : parts[i].slash
       THEN IF Len(parts) > 1
            THEN [filter |-> NoFilter, err |-> "You cannot target more than one resource name"]
            ELSE [filter |-> [Kinds |-> <<>>,
                              Name |-> <<Lookup(parts[1].kind), parts[1].name>>,
                              Label |-> selectorFlag],
                  err |-> ""]
       ELSE IF Len(unknownKinds) > 0
       THEN [filter |-> NoFilter, err |-> "Unknown resource kinds", unknown |-> unknownKinds]
       ELSE [filter |-> [Kinds |-> [i \in 1..Len(parts) |-> kindMapping[parts[i].kind]], Name |-> <<>>,
                         Label |-> selectorFlag],
             err |-> ""]

\* main.go 505-554
getFilter(kindArg, selectorFlag) ==
    LET parts == [i \in 1..Len(kindArg) |->
                    [kindArg[i] EXCEPT !.kind = ToLower(@), !.name = ToLower(@)]]
        unknownKinds == SelectSeq([i \in 1..Len(parts) |-> parts[i].kind],
                                  LAMBDA k : k \notin DOMAIN kindMapping)
        targetedKinds == { kindMapping[parts[i].kind] :
                             i \in { j \in 1..Len(parts) : parts[j].kind \in DOMAIN kindMapping } }
    IN IF Len(kindArg) = 0
       THEN [filter |-> [Kinds |-> <<>>, Name |-> <<>>, Label |-> selectorFlag], err |-> ""]
       ELSE IF \E i \in 1..Len(parts) : parts[i].slash
       THEN IF Len(parts) > 1
            THEN [filter |-> NoFilter, err |-> "You cannot target more than one resource name"]
            ELSE [filter |-> [Kinds |-> <<>>,
                              Name |-> <<Lookup(parts[1].kind), parts[1].name>>,
                              Label |-> selectorFlag],
                  err |-> ""]
       ELSE IF Len(unknownKinds) > 0
       THEN [filter |-> NoFilter, err |-> "Unknown resource kinds", unknown |-> unknownKinds]
       ELSE [filter |-> [Kinds |-> SortKinds(targetedKinds, KindOrder), Name |-> <<>>,
                         Label |-> selectorFlag],
             err |-> ""]

\* the keys a filter accepts (spec.md 4.2, without labels and excludes)
Accepted(f) ==
    IF f.Name # <<>> THEN { k \in Keys : k = f.Name }
    ELSE IF f.Kinds = <<>> THEN Keys
    ELSE { k \in Keys : k[1] \in SeqToSet(f.Kinds) }

(***************************************************************************)
(* compare and calculateChangeset (src/unnamed/part_000).                  *)
(***************************************************************************)
RECURSIVE Lines(_, _)
Lines(bucket, word) ==
    IF bucket = <<>> THEN <<>>
    ELSE << <<word, Head(bucket).Key>> >> \o Lines(Tail(bucket), word)

Summary(cs) ==
    [inSync |-> Len(cs.Noop), toCreate |-> Len(cs.Create),
     toUpdate |-> Len(cs.Update), toDelete |-> Len(cs.Delete)]

\* part_000 136-160: what compare prints for a changeset
Printed(cs) ==
    Lines(cs.Noop, "in sync") \o Lines(cs.Delete, "to delete")
    \o Lines(cs.Create, "to create") \o Lines(cs.Update, "to update")
    \o << <<"Summary", Summary(cs)>> >>

\* compareResult that prints although NewChangeset failed
compareResult_PrintsOnError(r) ==
    [changeset |-> r.changeset, err |-> r.err, out |-> Printed(r.changeset)]

\* part_000 132-162, r being the result of NewChangeset
compareResult(r) ==
    IF r.err # ""
    THEN [changeset |-> r.changeset, err |-> r.err, out |-> <<>>]
    ELSE [changeset |-> r.changeset, err |-> "", out |-> Printed(r.changeset)]

\* compare that hands no preserve paths on to NewChangeset
compare_NoPreservePaths(remoteResourceList, localResourceList, upsertOnly, allowRecreate, preservePaths) ==
    compareResult(NewChangeset(remoteResourceList, localResourceList, upsertOnly,
                               allowRecreate, {}))

\* compare that does not hand upsertOnly on to NewChangeset
compare_NoUpsertOnly(remoteResourceList, localResourceList, upsertOnly, allowRecreate, preservePaths) ==
    compareResult(NewChangeset(remoteResourceList, localResourceList, FALSE,
                               allowRecreate, preservePaths))

compare(remoteResourceList, localResourceList, upsertOnly, allowRecreate, preservePaths) ==
    compareResult(NewChangeset(remoteResourceList, localResourceList, upsertOnly,
                               allowRecreate, preservePaths))

\* changesetResult with the negation of Blank() dropped
changesetResult_NotNegated(c) ==
    IF c.err # ""
    THEN [updateRequired |-> FALSE, changeset |-> c.changeset, err |-> c.err, out |-> c.out]
    ELSE [updateRequired |-> Blank(c.changeset), changeset |-> c.changeset,
          err |-> "", out |-> c.out]

\* part_000 123-127, c being the result of compare
changesetResult(c) ==
    IF c.err # ""
    THEN [updateRequired |-> FALSE, changeset |-> c.changeset, err |-> c.err, out |-> c.out]
    ELSE [updateRequired |-> ~Blank(c.changeset), changeset |-> c.changeset,
          err |-> "", out |-> c.out]

\* calculateChangeset without the refusal of part_000 85-113
calculateChangeset_NoRefusal(platformList, templateList, opts) ==
    changesetResult(compare(platformList, templateList, opts.UpsertOnly,
                            opts.AllowRecreate, opts.PathsToPreserve))

\* calculateChangeset from the point where both lists are assembled
calculateChangeset(platformList, templateList, opts) ==
    IF DOMAIN templateList = {} /\ ~opts.Force
    THEN [updateRequired |-> FALSE, changeset |-> EmptyChangeset, err |-> "",
          out |-> << <<"Refusing to continue without --force">> >>]
    ELSE changesetResult(compare(platformList, templateList, opts.UpsertOnly,
                                 opts.AllowRecreate, opts.PathsToPreserve))

(***************************************************************************)
(* UpdateRemote (spec.md 4.3 "Ordering of application" and 4.4): the       *)
(* adapter calls of a changeset in the order Delete, Recreate-delete,      *)
(* Create, Recreate-create, Update.                                        *)
(***************************************************************************)
RECURSIVE Steps(_, _, _)
Steps(bucket, phase, op) ==
    IF bucket = <<>> THEN <<>>
    ELSE << [phase |-> phase, op |-> op, key |-> Head(bucket).Key] >>
         \o Steps(Tail(bucket), phase, op)

\* a plan that recreates each item in one go, before the creations
Plan_RecreateInOneGo(cs) ==
    Steps(cs.Delete, 1, "Delete") \o Steps(cs.Recreate, 2, "Delete")
    \o Steps(cs.Recreate, 4, "Create") \o Steps(cs.Create, 3, "Create")
    \o Steps(cs.Update, 5, "Patch")

Plan(cs) ==
    Steps(cs.Delete, 1, "Delete") \o Steps(cs.Recreate, 2, "Delete")
    \o Steps(cs.Create, 3, "Create") \o Steps(cs.Recreate, 4, "Create")
    \o Steps(cs.Update, 5, "Patch")

\* what an adapter call can end with
Outcomes(step) ==
    {"ok", "AdapterError"} \cup (IF step.phase = 2 THEN {"RecreateTimedOut"} ELSE {})

FailedKeys == { f.key : f \in failed }

\* main.go 382-391: the result of UpdateRemote is not looked at; main ends
updateExit(applyFailed) == 0

(***************************************************************************)
(* Inputs.                                                                 *)
(***************************************************************************)
ResourceArgs ==
    { <<>>,
      <<Part("SVC", "", FALSE)>>,
      <<Part("Pvc", "", FALSE), Part("foo", "", FALSE)>>,
      <<Part("cm", "b", TRUE)>> }

Pointer(kind, name, path) == [kind |-> kind, name |-> name, path |-> path]

PreserveChoices ==
    { {},
      { Pointer("*", "*", Ports),
        Pointer("PersistentVolumeClaim", "*", <<"spec">>),
        Pointer("Service", "b", ClusterIP) } }

CompareOptionSets ==
    [Resource : ResourceArgs, Selector : {""}, UpsertOnly : BOOLEAN,
     AllowRecreate : BOOLEAN, Force : BOOLEAN, PathsToPreserve : PreserveChoices]

Init ==
    /\ command \in {"status", "update"}
    /\ globalOptions \in [NonInteractive : BOOLEAN]
    \* the status command never reads NonInteractive: one value stands for both
    /\ command = "status" => ~globalOptions.NonInteractive
    /\ compareOptions \in CompareOptionSets
    /\ pc = "checkLoggedIn"
    /\ filter = NoFilter
    /\ templateBasedList = << >>
    /\ platformBasedList = << >>
    /\ changeset = EmptyChangeset
    /\ updateRequired = FALSE
    /\ err = ""
    /\ stdout = << >>
    /\ confirmation = "none"
    /\ applyIdx = 0
    /\ calls = << >>
    /\ failed = {}
    /\ exitCode = NoExit
    /\ ExportIdle
    /\ SecretsIdle
    /\ ContextsIdle

\* log.Fatalln: the process ends with exit code 1
Fatal(e) ==
    /\ err' = e
    /\ exitCode' = 1
    /\ pc' = "exit"

\* main.go 556-562
checkLoggedIn ==
    /\ pc = "checkLoggedIn"
    /\ \/ /\ pc' = IF command = "export" THEN "getFilter" ELSE "options"
          /\ UNCHANGED <<err, exitCode>>
       \/ Fatal("You need to login with 'oc login' first.")
    /\ UNCHANGED <<command, globalOptions, compareOptions, filter, templateBasedList,
                   platformBasedList, changeset, updateRequired, stdout, confirmation,
                   applyIdx, calls, failed>>
    /\ UNCHANGED auxVars

\* main.go 331-346 and 360-375: compareOptions.Process()
ProcessOptions ==
    /\ pc = "options"
    /\ \/ /\ pc' = "filter"
          /\ UNCHANGED <<err, exitCode>>
       \/ Fatal("Options could not be processed")
    /\ UNCHANGED <<command, globalOptions, compareOptions, filter, templateBasedList,
                   platformBasedList, changeset, updateRequired, stdout, confirmation,
                   applyIdx, calls, failed>>
    /\ UNCHANGED auxVars

\* calculateChangeset returns (false, &Changeset{}, e) to main
ReturnError(e) ==
    /\ err' = e
    /\ updateRequired' = FALSE
    /\ changeset' = EmptyChangeset
    /\ pc' = "returned"

\* part_000 48-53
BuildFilter ==
    /\ pc = "filter"
    /\ LET r == getFilter(compareOptions.Resource, compareOptions.Selector)
       IN IF r.err # ""
          THEN /\ ReturnError(r.err)
               /\ UNCHANGED filter
          ELSE /\ filter' = r.filter
               /\ pc' = "templates"
               /\ UNCHANGED <<err, updateRequired, changeset>>
    /\ UNCHANGED <<command, globalOptions, compareOptions, templateBasedList,
                   platformBasedList, stdout, confirmation, applyIdx, calls, failed,
                   exitCode>>
    /\ UNCHANGED auxVars

\* part_000 55-62 and 165-194
AssembleTemplateBasedResourceList ==
    /\ pc = "templates"
    /\ \/ /\ \E l \in ResourceLists(Accepted(filter), Payloads) :
                /\ Cardinality(DOMAIN l) <= MaxItems
                /\ templateBasedList' = l
          /\ pc' = "export"
          /\ UNCHANGED <<err, updateRequired, changeset>>
       \/ /\ ReturnError("Could not process template")
          /\ UNCHANGED templateBasedList
    /\ UNCHANGED <<command, globalOptions, compareOptions, filter, platformBasedList,
                   stdout, confirmation, applyIdx, calls, failed, exitCode>>
    /\ UNCHANGED auxVars

\* part_000 64-67 and 196-202
AssemblePlatformBasedResourceList ==
    /\ pc = "export"
    /\ \/ /\ \E l \in ResourceLists(Accepted(filter), PlatformPayloads) :
                /\ Cardinality(DOMAIN l \cup DOMAIN templateBasedList) <= MaxItems
                /\ platformBasedList' = l
          /\ pc' = "compare"
          /\ UNCHANGED <<err, updateRequired, changeset>>
       \/ /\ ReturnError("Could not export resources")
          /\ UNCHANGED platformBasedList
    /\ UNCHANGED <<command, globalOptions, compareOptions, filter, templateBasedList,
                   stdout, confirmation, applyIdx, calls, failed, exitCode>>
    /\ UNCHANGED auxVars

\* part_000 69-128
CalculateChangeset ==
    /\ pc = "compare"
    /\ \E r \in {calculateChangeset(platformBasedList, templateBasedList, compareOptions)} :
          /\ updateRequired' = r.updateRequired
          /\ changeset' = r.changeset
          /\ err' = r.err
          /\ stdout' = r.out
    /\ pc' = "returned"
    /\ UNCHANGED <<command, globalOptions, compareOptions, filter, templateBasedList,
                   platformBasedList, confirmation, applyIdx, calls, failed, exitCode>>
    /\ UNCHANGED auxVars

\* statusExit that looks at updateRequired only
statusExit_NoErrorCheck(e, required) == IF required THEN 3 ELSE 0

\* main.go 348-355: the exit code of the status command
statusExit(e, required) == IF e # "" THEN 1 ELSE IF required THEN 3 ELSE 0

StatusCommand ==
    /\ pc = "returned"
    /\ command = "status"
    /\ exitCode' = statusExit(err, updateRequired)
    /\ pc' = "exit"
    /\ UNCHANGED <<command, globalOptions, compareOptions, filter, templateBasedList,
                   platformBasedList, changeset, updateRequired, err, stdout,
                   confirmation, applyIdx, calls, failed>>
    /\ UNCHANGED auxVars

\* updateGate that never asks
updateGate_NeverAsks(e, required, nonInteractive) ==
    IF e # "" THEN "fatal"
    ELSE IF ~required THEN "end"
    ELSE "apply"

\* main.go 377-391: where the update command goes once the changeset is known
updateGate(e, required, nonInteractive) ==
    IF e # "" THEN "fatal"
    ELSE IF ~required THEN "end"
    ELSE IF nonInteractive THEN "apply"
    ELSE "confirm"

UpdateCommand ==
    /\ pc = "returned"
    /\ command = "update"
    /\ LET g == updateGate(err, updateRequired, globalOptions.NonInteractive)
       IN /\ pc' = IF g \in {"fatal", "end"} THEN "exit" ELSE g
          /\ exitCode' = IF g = "fatal" THEN 1 ELSE IF g = "end" THEN 0 ELSE exitCode
          /\ applyIdx' = IF g = "apply" THEN 1 ELSE applyIdx
    /\ UNCHANGED <<command, globalOptions, compareOptions, filter, templateBasedList,
                   platformBasedList, changeset, updateRequired, err, stdout,
                   confirmation, calls, failed>>
    /\ UNCHANGED auxVars

\* main.go 386-389: cli.AskForConfirmation("Apply changes?")
AskForConfirmation ==
    /\ pc = "confirm"
    /\ \E c \in {"yes", "no"} :
          /\ confirmation' = c
          /\ pc' = IF c = "yes" THEN "apply" ELSE "exit"
          /\ exitCode' = IF c = "yes" THEN exitCode ELSE 0
          /\ applyIdx' = IF c = "yes" THEN 1 ELSE applyIdx
    /\ UNCHANGED <<command, globalOptions, compareOptions, filter, templateBasedList,
                   platformBasedList, changeset, updateRequired, err, stdout, calls,
                   failed>>
    /\ UNCHANGED auxVars

\* one step of UpdateRemote: the next adapter call of the plan and its outcome
UpdateRemoteStep ==
    /\ pc = "apply"
    /\ applyIdx <= Len(Plan(changeset))
    /\ LET step == Plan(changeset)[applyIdx]
       IN IF step.phase = 4 /\ step.key \in FailedKeys
          THEN UNCHANGED <<calls, failed>>
          ELSE /\ calls' = Append(calls, step)
               /\ \E o \in Outcomes(step) :
                     /\ o # "ok" => Cardinality(failed) < MaxFailures
                     /\ failed' = IF o = "ok" THEN failed
                                  ELSE failed \cup {[key |-> step.key, error |-> o]}
    /\ applyIdx' = applyIdx + 1
    /\ UNCHANGED <<command, globalOptions, compareOptions, pc, filter, templateBasedList,
                   platformBasedList, changeset, updateRequired, err, stdout,
                   confirmation, exitCode>>
    /\ UNCHANGED auxVars

\* UpdateRemote returns and main ends
UpdateRemoteReturn ==
    /\ pc = "apply"
    /\ applyIdx > Len(Plan(changeset))
    /\ exitCode' = updateExit(failed)
    /\ pc' = "exit"
    /\ UNCHANGED <<command, globalOptions, compareOptions, filter, templateBasedList,
                   platformBasedList, changeset, updateRequired, err, stdout,
                   confirmation, applyIdx, calls, failed>>
    /\ UNCHANGED auxVars

Next ==
    \/ checkLoggedIn
    \/ ProcessOptions
    \/ BuildFilter
    \/ AssembleTemplateBasedResourceList
    \/ AssemblePlatformBasedResourceList
    \/ CalculateChangeset
    \/ StatusCommand
    \/ UpdateCommand
    \/ AskForConfirmation
    \/ UpdateRemoteStep
    \/ UpdateRemoteReturn

Spec == Init /\ [][Next]_vars

(***************************************************************************)
(* The export command (main.go 393-408): SpecExport.                       *)
(***************************************************************************)
\* a resource argument holds at most MaxParts comma-separated parts
MaxParts == 3

\* the tokens of a one-kind argument, and those kind lists are made of
SingleTokens ==
    {"dc", "bc", "svc", "is", "pvc", "cm", "sa", "rb",
     "deploymentconfig", "buildconfig", "service", "imagestream",
     "persistentvolumeclaim", "configmap", "serviceaccount", "rolebinding",
     "DC", "Pvc", "SVC", "SA", "Rb", "DeploymentConfig", "foo", "secret"}
ListTokens == {"pvc", "dc", "DC", "deploymentconfig", "Pvc", "svc", "foo"}
ListParts ==
    { Part(t, "", FALSE) : t \in ListTokens } \cup { Part("dc", "bar", TRUE) }

RECURSIVE SeqsUpTo(_, _)
\* the sequences over S of length at most n
SeqsUpTo(S, n) ==
    IF n = 0 THEN { <<>> }
    ELSE LET shorter == SeqsUpTo(S, n - 1)
         IN shorter \cup { Append(q, x) : q \in { r \in shorter : Len(r) = n - 1 }, x \in S }

ExportResourceArgs ==
    SeqsUpTo(ListParts, MaxParts)
        \cup { <<Part(t, "", FALSE)>> : t \in SingleTokens }
        \cup { <<Part(t, n, TRUE)>> : t \in {"dc", "DC", "sa", "foo"}, n \in {"bar", "Bar"} }

ExportInit ==
    /\ command = "export"
    /\ globalOptions = [NonInteractive |-> FALSE]
    /\ compareOptions =
          [Resource |-> <<>>, Selector |-> "", UpsertOnly |-> FALSE,
           AllowRecreate |-> FALSE, Force |-> FALSE, PathsToPreserve |-> {}]
    /\ pc = "checkLoggedIn"
    /\ filter = NoFilter
    /\ templateBasedList = << >>
    /\ platformBasedList = << >>
    /\ changeset = EmptyChangeset
    /\ updateRequired = FALSE
    /\ err = ""
    /\ stdout = << >>
    /\ confirmation = "none"
    /\ applyIdx = 0
    /\ calls = << >>
    /\ failed = {}
    /\ exitCode = NoExit
    /\ exportOptions \in [Resource : ExportResourceArgs, Selector : {"", "app=foo"}]
    /\ errKinds = <<>>
    /\ SecretsIdle
    /\ ContextsIdle

\* main.go 404-407
ExportGetFilter ==
    /\ pc = "getFilter"
    /\ \E r \in {getFilter(exportOptions.Resource, exportOptions.Selector)} :
          IF r.err # ""
          THEN /\ Fatal(r.err)
               /\ errKinds' = IF r.err = "Unknown resource kinds" THEN r.unknown ELSE <<>>
               /\ UNCHANGED filter
          ELSE /\ filter' = r.filter
               /\ pc' = "export"
               /\ UNCHANGED <<err, exitCode, errKinds>>
    /\ UNCHANGED <<command, globalOptions, compareOptions, templateBasedList,
                   platformBasedList, changeset, updateRequired, stdout, confirmation,
                   applyIdx, calls, failed, exportOptions, secretsVars,
                   ctxVars>>

\* main.go 408 and 605-630: export(filter, exportOptions)
Export ==
    /\ pc = "export"
    /\ \/ /\ pc' = "exit"
          /\ exitCode' = 0
          /\ UNCHANGED err
       \/ Fatal("Could not export resources as template.")
    /\ UNCHANGED <<command, globalOptions, compareOptions, filter, templateBasedList,
                   platformBasedList, changeset, updateRequired, stdout, confirmation,
                   applyIdx, calls, failed, exportVars, secretsVars, ctxVars>>

NextExport ==
    \/ checkLoggedIn
    \/ ExportGetFilter
    \/ Export

SpecExport == ExportInit /\ [][NextExport]_vars

(***************************************************************************)
(* The edit and re-encrypt commands (main.go 239-289, 412-433):            *)
(* SpecSecrets.  A line of a parameter file is KEY=value or                *)
(* KEY.ENC=envelope; the param store of package openshift is not in the    *)
(* tree and follows spec.md 4.5.                                           *)
(***************************************************************************)
\* a parameter file holds at most MaxParams lines
MaxParams == 2

ParamKeys == {"A", "B", "C"}
ParamValues == {"x", "y"}

NoEnvelope == [Plain |-> "", Session |-> 0]
\* an envelope: the value under a session key drawn from the random source
Encrypt(value, session) == [Plain |-> value, Session |-> session]
Decrypt(envelope) == envelope.Plain

PlainLine(key, value) ==
    [Key |-> key, IsSecret |-> FALSE, Value |-> value, Envelope |-> NoEnvelope]
SecretLine(key, envelope) ==
    [Key |-> key, IsSecret |-> TRUE, Value |-> "", Envelope |-> envelope]

\* a line of the decrypted buffer: KEY=value or KEY.ENC=value
BufferLine(key, secret, value) == [Key |-> key, IsSecret |-> secret, Value |-> value]
BufferLines == [Key : ParamKeys, IsSecret : BOOLEAN, Value : ParamValues]

\* the buffers of at most MaxParams lines, no key twice
Buffers ==
    { b \in SeqsUpTo(BufferLines, MaxParams) :
        \A i, j \in 1..Len(b) : b[i].Key = b[j].Key => i = j }

\* the file whose decrypted buffer is b, the envelope of line i made with
\* the i-th session key
FileOf(b) ==
    [i \in 1..Len(b) |->
        IF b[i].IsSecret THEN SecretLine(b[i].Key, Encrypt(b[i].Value, i))
        ELSE PlainLine(b[i].Key, b[i].Value)]

ParamFiles == { FileOf(b) : b \in Buffers }

\* openshift.NewParamsFromFile: parse, and decrypt every .ENC value
NewParamsFromFile(file) ==
    [i \in 1..Len(file) |->
        [Key |-> file[i].Key, IsSecret |-> file[i].IsSecret,
         Value |-> IF file[i].IsSecret THEN Decrypt(file[i].Envelope) ELSE file[i].Value,
         Envelope |-> file[i].Envelope]]

\* Params.Process(false, false): the decrypted buffer
Process(params) ==
    [i \in 1..Len(params) |->
        BufferLine(params[i].Key, params[i].IsSecret, params[i].Value)]

\* openshift.NewParamsFromInput: params parsed from a buffer have no envelope
NewParamsFromInput(content) ==
    [i \in 1..Len(content) |->
        [Key |-> content[i].Key, IsSecret |-> content[i].IsSecret,
         Value |-> content[i].Value, Envelope |-> NoEnvelope]]

\* the previous params whose envelope a param may keep
Reusable(p, previous) ==
    { q \in SeqToSet(previous) : q.Key = p.Key /\ q.IsSecret /\ q.Value = p.Value }

RECURSIVE Render(_, _, _)
\* Params.Render: a secret param keeps the envelope of the previous param of
\* its key when the plaintext is the same, and is encrypted anew otherwise;
\* drawn is the number of session keys drawn so far
Render(params, previous, drawn) ==
    IF params = <<>> THEN <<>>
    ELSE LET p == Head(params)
         IN IF ~p.IsSecret
            THEN <<PlainLine(p.Key, p.Value)>> \o Render(Tail(params), previous, drawn)
            ELSE IF Reusable(p, previous) # {}
            THEN <<SecretLine(p.Key, (CHOOSE q \in Reusable(p, previous) : TRUE).Envelope)>>
                    \o Render(Tail(params), previous, drawn)
            ELSE <<SecretLine(p.Key, Encrypt(p.Value, drawn + 1))>>
                    \o Render(Tail(params), previous, drawn + 1)

\* the session keys Render draws
Drawn(params, previous) ==
    Cardinality({ i \in 1..Len(params) :
                    params[i].IsSecret /\ Reusable(params[i], previous) = {} })

\* edit that hands Render no previous params
editPrevious_None(params) == <<>>

\* main.go 255: edit renders against the params read from the file
editPrevious(params) == params

\* re-encrypt that hands Render the params read from the file
reEncryptPrevious_Read(params) == params

\* main.go 424: re-encrypt renders against []*openshift.Param{}
reEncryptPrevious(params) == <<>>

\* what the user may hand back from the editor
Edits(content) ==
    {content}
      \cup { [content EXCEPT ![i].Value = v] : i \in 1..Len(content), v \in ParamValues }
      \cup { [content EXCEPT ![i].IsSecret = ~@] : i \in 1..Len(content) }
      \cup { SubSeq(content, 1, i - 1) \o SubSeq(content, i + 1, Len(content)) :
               i \in 1..Len(content) }
      \cup { Append(content, l) :
               l \in { x \in BufferLines :
                         /\ Len(content) < MaxParams
                         /\ \A i \in 1..Len(content) : content[i].Key # x.Key } }

SecretsInit ==
    /\ command \in {"edit", "re-encrypt"}
    /\ globalOptions = [NonInteractive |-> FALSE]
    /\ compareOptions =
          [Resource |-> <<>>, Selector |-> "", UpsertOnly |-> FALSE,
           AllowRecreate |-> FALSE, Force |-> FALSE, PathsToPreserve |-> {}]
    /\ pc = "read"
    /\ filter = NoFilter
    /\ templateBasedList = << >>
    /\ platformBasedList = << >>
    /\ changeset = EmptyChangeset
    /\ updateRequired = FALSE
    /\ err = ""
    /\ stdout = << >>
    /\ confirmation = "none"
    /\ applyIdx = 0
    /\ calls = << >>
    /\ failed = {}
    /\ exitCode = NoExit
    /\ ExportIdle
    /\ paramFile \in ParamFiles
    /\ fileAtStart = paramFile
    /\ readParams = <<>>
    /\ editedContent = <<>>
    /\ renderedContent = <<>>
    /\ rand = Len(paramFile)
    /\ ContextsIdle

\* main.go 240-244 and 413-417: NewParamsFromFile and Process; the editor
\* comes next for edit, and for re-encrypt the buffer is parsed as it is
ReadParams ==
    /\ pc = "read"
    /\ \/ /\ readParams' = NewParamsFromFile(paramFile)
          /\ editedContent' = Process(NewParamsFromFile(paramFile))
          /\ pc' = IF command = "edit" THEN "edit" ELSE "render"
          /\ UNCHANGED <<err, exitCode>>
       \/ /\ Fatal("Could not read file")
          /\ UNCHANGED <<readParams, editedContent>>
    /\ UNCHANGED <<command, engineVars, filter, exportVars, ctxVars, paramFile, fileAtStart,
                   renderedContent, rand>>

\* main.go 246-249: cli.EditEnvFile
EditEnvFile ==
    /\ pc = "edit"
    /\ \/ /\ \E c \in Edits(editedContent) : editedContent' = c
          /\ pc' = "render"
          /\ UNCHANGED <<err, exitCode>>
       \/ /\ Fatal("Could not edit file")
          /\ UNCHANGED editedContent
    /\ UNCHANGED <<command, engineVars, filter, exportVars, ctxVars, paramFile, fileAtStart,
                   readParams, renderedContent, rand>>

\* main.go 250-258 and 419-427: NewParamsFromInput and Render
RenderParams ==
    /\ pc = "render"
    /\ \/ /\ \E previous \in {IF command = "edit" THEN editPrevious(readParams)
                              ELSE reEncryptPrevious(readParams)} :
                /\ renderedContent' = Render(NewParamsFromInput(editedContent), previous, rand)
                /\ rand' = rand + Drawn(NewParamsFromInput(editedContent), previous)
          /\ pc' = "write"
          /\ UNCHANGED <<err, exitCode>>
       \/ /\ Fatal("Could not render params")
          /\ UNCHANGED <<renderedContent, rand>>
    /\ UNCHANGED <<command, engineVars, filter, exportVars, ctxVars, paramFile, fileAtStart,
                   readParams, editedContent>>

\* main.go 259 and 428, ioutil.WriteFile: the file is opened with O_TRUNC
WriteFileOpen ==
    /\ pc = "write"
    /\ \/ /\ paramFile' = <<>>
          /\ pc' = "writing"
          /\ UNCHANGED <<err, exitCode>>
       \/ /\ Fatal("Could not write file")
          /\ UNCHANGED paramFile
    /\ UNCHANGED <<command, engineVars, filter, exportVars, ctxVars, fileAtStart, readParams,
                   editedContent, renderedContent, rand>>

\* main.go 259-262 and 428-432, ioutil.WriteFile: the content is written to
\* the open file, all of it or, with an error, the lines before the error
WriteFileWrite ==
    /\ pc = "writing"
    /\ \E n \in 0..Len(renderedContent) :
          /\ paramFile' = SubSeq(renderedContent, 1, n)
          /\ IF n = Len(renderedContent)
             THEN /\ pc' = "exit"
                  /\ exitCode' = 0
                  /\ UNCHANGED err
             ELSE Fatal("Could not write file")
    /\ UNCHANGED <<command, engineVars, filter, exportVars, ctxVars, fileAtStart, readParams,
                   editedContent, renderedContent, rand>>

\* the process receives an interrupt: main installs no handler and ends where it is
Interrupt ==
    /\ pc \notin {"exit", "killed"}
    /\ pc' = "killed"
    /\ UNCHANGED <<command, engineVars, filter, exportVars, ctxVars, err, exitCode, secretsVars>>

NextSecrets ==
    \/ ReadParams
    \/ EditEnvFile
    \/ RenderParams
    \/ WriteFileOpen
    \/ WriteFileWrite
    \/ Interrupt

SpecSecrets == SecretsInit /\ [][NextSecrets]_vars

(***************************************************************************)
(* The diff and apply commands over several context directories            *)
(* (main.go of the later release, kept in                                  *)
(* src/internal/test/e2e/resources/job/0/template.yml 365-438, and         *)
(* calculateChangeset, part_000 19-202): SpecContexts.  commands.Diff and  *)
(* commands.Apply over the option sets are not in the tree and follow      *)
(* spec.md 5.                                                              *)
(***************************************************************************)
\* globalOptions.ContextDirs
ContextDirLists == { <<"a">>, <<"a", "b">>, <<"b", "a">>, <<"a", "a">> }

File(name, ext) == [name |-> name, ext |-> ext]

\* ioutil.ReadDir of the template directory of a context: sorted by name
TemplateFiles(dir) ==
    IF dir = "a" THEN <<File("a", "yml"), File("b", "txt"), File("c", "yaml")>>
    ELSE <<File("d", "yml")>>

\* part_000 171-178: the pattern .*\.ya?ml$
Matched(file) == file.ext \in {"yml", "yaml"}

Payload(ip, ports) == [l \in Leaves |-> IF l = ClusterIP THEN ip ELSE ports]

\* what openshift.ProcessTemplate may return for a file
TemplateOutputs ==
    { << >>, (<<"ConfigMap", "b">> :> Payload(2, 1)), (<<"Service", "a">> :> Payload(1, 1)) }

\* what ocClient.Export may return
ExportOutputs == { << >>, (<<"ConfigMap", "b">> :> Payload(1, 1)) }

\* what cli.NewCompareOptions may return for a context
ContextOptionSets ==
    { [Resource |-> r, Selector |-> "", UpsertOnly |-> u, AllowRecreate |-> FALSE,
       Force |-> FALSE, PathsToPreserve |-> {}] :
        r \in { <<>>, <<Part("foo", "", FALSE)>> }, u \in BOOLEAN }

\* a list restricted to the keys the filter accepts
Restrict(list, f) == [k \in DOMAIN list \cap Accepted(f) |-> list[k]]

RECURSIVE MergeInputs(_)
\* the items of the processed templates, a later template winning
MergeInputs(ins) ==
    IF ins = << >> THEN << >>
    ELSE LET rest == MergeInputs(SubSeq(ins, 1, Len(ins) - 1))
             last == ins[Len(ins)]
         IN [k \in DOMAIN rest \cup DOMAIN last |->
                IF k \in DOMAIN last THEN last[k] ELSE rest[k]]

NewTemplateBasedResourceList(f, ins) == Restrict(MergeInputs(ins), f)
NewPlatformBasedResourceList(f, exported) == Restrict(exported, f)

\* the map m with the key k set to v
MapSet(m, k, v) == [x \in DOMAIN m \cup {k} |-> IF x = k THEN v ELSE m[x]]

\* the loop over ContextDirs that ends once the first option set is built
loopDone_AfterFirst(idx, dirs) == idx > 1

\* template.yml 367-395 and 406-434: the loop over globalOptions.ContextDirs
\* has built the option set of every context
loopDone(idx, dirs) == idx > Len(dirs)

\* a template whose failure is passed over
afterProcess_Continues(processFailed) == "next"

\* part_000 184-186: a template that fails to process ends the assembly
afterProcess(processFailed) == IF processFailed THEN "return" ELSE "next"

\* every context run with the option set of some context
ownOptions_Any(sets, dir) == sets[CHOOSE d \in DOMAIN sets : TRUE]

\* commands.Diff and commands.Apply: a context runs with its own option set
ownOptions(sets, dir) == sets[dir]

Event(dir, op, file, ok, out) ==
    [ctx |-> dir, op |-> op, file |-> file, ok |-> ok, out |-> out]
NoFile == File("", "")

Result(stage, required, cs, e, out) ==
    [stage |-> stage, updateRequired |-> required, changeset |-> cs, err |-> e,
     out |-> out, filter |-> filter, templateBasedList |-> templateBasedList,
     platformBasedList |-> platformBasedList]

ContextsInit ==
    /\ command \in {"diff", "apply"}
    /\ globalOptions \in [NonInteractive : BOOLEAN, ContextDirs : ContextDirLists]
    \* the diff command never reads NonInteractive: one value stands for both
    /\ command = "diff" => ~globalOptions.NonInteractive
    /\ compareOptions =
          [Resource |-> <<>>, Selector |-> "", UpsertOnly |-> FALSE,
           AllowRecreate |-> FALSE, Force |-> FALSE, PathsToPreserve |-> {}]
    /\ pc = "options"
    /\ filter = NoFilter
    /\ templateBasedList = << >>
    /\ platformBasedList = << >>
    /\ changeset = EmptyChangeset
    /\ updateRequired = FALSE
    /\ err = ""
    /\ stdout = << >>
    /\ confirmation = "none"
    /\ applyIdx = 0
    /\ calls = << >>
    /\ failed = {}
    /\ exitCode = NoExit
    /\ ExportIdle
    /\ SecretsIdle
    /\ ContextsIdle

\* the variables the stages of a context leave alone
ctxFixed == <<command, globalOptions, compareOptions, confirmation, applyIdx, calls,
              failed, exportVars, secretsVars, optionSets, optIdx, contextDir>>

\* template.yml 367-395 and 406-434: cli.NewCompareOptions for the next context
NewCompareOptions ==
    /\ pc = "options"
    /\ ~loopDone(optIdx, globalOptions.ContextDirs)
    /\ \/ /\ \E opt \in ContextOptionSets :
                optionSets' = MapSet(optionSets, globalOptions.ContextDirs[optIdx], opt)
          /\ optIdx' = optIdx + 1
          /\ UNCHANGED <<pc, err, exitCode>>
       \/ /\ Fatal("Options could not be processed")
          /\ UNCHANGED <<optionSets, optIdx>>
    /\ UNCHANGED <<command, engineVars, filter, exportVars, secretsVars, contextDir,
                   fileIdx, inputs, trace, results>>

\* template.yml 397 and 435: commands.Diff or commands.Apply is called
CallCommand ==
    /\ pc = "options"
    /\ loopDone(optIdx, globalOptions.ContextDirs)
    /\ pc' = "range"
    /\ UNCHANGED <<command, engineVars, filter, exportVars, secretsVars, ctxVars, err,
                   exitCode>>

\* commands.Diff, commands.Apply: the next context of the option sets, in the
\* order the map gives them; part_000 19-46
RangeNext ==
    /\ pc = "range"
    /\ \E d \in DOMAIN optionSets \ DOMAIN results :
          contextDir' = d
    /\ pc' = "filter"
    /\ filter' = NoFilter
    /\ templateBasedList' = << >>
    /\ platformBasedList' = << >>
    /\ inputs' = << >>
    /\ fileIdx' = 1
    /\ UNCHANGED <<command, globalOptions, compareOptions, changeset, updateRequired,
                   stdout, confirmation, applyIdx, calls, failed, exportVars,
                   secretsVars, optionSets, optIdx, trace, results, err, exitCode>>

\* calculateChangeset returns (false, &Changeset{}, e), the command returns e
\* and main ends with log.Fatalln (template.yml 398-399 and 436-437)
ContextError(stage, e) ==
    /\ results' = MapSet(results, contextDir, Result(stage, FALSE, EmptyChangeset, e, << >>))
    /\ updateRequired' = FALSE
    /\ changeset' = EmptyChangeset
    /\ Fatal(e)

\* part_000 48-53
ContextFilter ==
    /\ pc = "filter"
    /\ trace' = Append(trace, Event(contextDir, "filter", NoFile, TRUE, << >>))
    /\ \E r \in {getFilter(ownOptions(optionSets, contextDir).Resource,
                           ownOptions(optionSets, contextDir).Selector)} :
          IF r.err # ""
          THEN /\ ContextError("filter", r.err)
               /\ UNCHANGED filter
          ELSE /\ filter' = r.filter
               /\ pc' = "readdir"
               /\ UNCHANGED <<results, updateRequired, changeset, err, exitCode>>
    /\ UNCHANGED <<ctxFixed, templateBasedList, platformBasedList, stdout, fileIdx, inputs>>

\* part_000 168-171: ioutil.ReadDir of the template directory
ReadDir ==
    /\ pc = "readdir"
    /\ \/ /\ pc' = "templates"
          /\ UNCHANGED <<results, updateRequired, changeset, err, exitCode>>
       \/ ContextError("readdir", "Could not read template directory")
    /\ UNCHANGED <<ctxFixed, filter, templateBasedList, platformBasedList, stdout,
                   fileIdx, inputs, trace>>

\* part_000 174-190: one turn of the loop over the files of the directory
ProcessTemplate ==
    /\ pc = "templates"
    /\ fileIdx <= Len(TemplateFiles(contextDir))
    /\ LET file == TemplateFiles(contextDir)[fileIdx]
       IN IF ~Matched(file)
          THEN /\ fileIdx' = fileIdx + 1
               /\ UNCHANGED <<inputs, trace, results, updateRequired, changeset, err,
                              exitCode, pc>>
          ELSE \/ /\ \E out \in TemplateOutputs :
                        /\ inputs' = Append(inputs, out)
                        /\ trace' = Append(trace, Event(contextDir, "process", file, TRUE, out))
                  /\ fileIdx' = fileIdx + 1
                  /\ UNCHANGED <<results, updateRequired, changeset, err, exitCode, pc>>
               \/ /\ trace' = Append(trace, Event(contextDir, "process", file, FALSE, << >>))
                  /\ IF afterProcess(TRUE) = "return"
                     THEN /\ ContextError("process", "Could not process template")
                          /\ UNCHANGED <<fileIdx, inputs>>
                     ELSE /\ fileIdx' = fileIdx + 1
                          /\ UNCHANGED <<inputs, results, updateRequired, changeset, err,
                                         exitCode, pc>>
    /\ UNCHANGED <<ctxFixed, filter, templateBasedList, platformBasedList, stdout>>

\* part_000 193: openshift.NewTemplateBasedResourceList(filter, inputs...)
TemplatesDone ==
    /\ pc = "templates"
    /\ fileIdx > Len(TemplateFiles(contextDir))
    /\ templateBasedList' = NewTemplateBasedResourceList(filter, inputs)
    /\ pc' = "export"
    /\ UNCHANGED <<ctxFixed, filter, platformBasedList, stdout, fileIdx, inputs, trace,
                   results, updateRequired, changeset, err, exitCode>>

\* part_000 64-67 and 196-202
ExportPlatform ==
    /\ pc = "export"
    /\ \/ /\ \E out \in ExportOutputs :
                /\ platformBasedList' = NewPlatformBasedResourceList(filter, out)
                /\ trace' = Append(trace, Event(contextDir, "export", NoFile, TRUE, out))
          /\ pc' = "compare"
          /\ UNCHANGED <<results, updateRequired, changeset, err, exitCode>>
       \/ /\ trace' = Append(trace, Event(contextDir, "export", NoFile, FALSE, << >>))
          /\ ContextError("export", "Could not export resources")
          /\ UNCHANGED platformBasedList
    /\ UNCHANGED <<ctxFixed, filter, templateBasedList, stdout, fileIdx, inputs>>

\* part_000 69-128, and where the command goes with the result
ContextCompare ==
    /\ pc = "compare"
    /\ trace' = Append(trace, Event(contextDir, "compare", NoFile, TRUE, << >>))
    /\ \E r \in {calculateChangeset(platformBasedList, templateBasedList,
                                    ownOptions(optionSets, contextDir))} :
          /\ results' = MapSet(results, contextDir,
                               Result("compare", r.updateRequired, r.changeset, r.err, r.out))
          /\ updateRequired' = r.updateRequired
          /\ changeset' = r.changeset
          /\ stdout' = stdout \o r.out
          /\ IF r.err # "" THEN Fatal(r.err)
             ELSE /\ pc' = IF command = "apply" /\ r.updateRequired THEN "apply" ELSE "range"
                  /\ UNCHANGED <<err, exitCode>>
    /\ UNCHANGED <<ctxFixed, filter, templateBasedList, platformBasedList, fileIdx, inputs>>

\* commands.Apply: the changes of the context are applied, in interactive
\* mode once the user has agreed
ContextApply ==
    /\ pc = "apply"
    /\ \E agreed \in IF globalOptions.NonInteractive THEN {TRUE} ELSE BOOLEAN :
          trace' = IF agreed
                   THEN Append(trace, Event(contextDir, "mutate", NoFile, TRUE, << >>))
                   ELSE trace
    /\ pc' = "range"
    /\ UNCHANGED <<ctxFixed, filter, templateBasedList, platformBasedList, stdout, fileIdx,
                   inputs, results, updateRequired, changeset, err, exitCode>>

\* template.yml 397-402 and 435-438: the command returns and main ends
CommandReturn ==
    /\ pc = "range"
    /\ DOMAIN optionSets \subseteq DOMAIN results
    /\ pc' = "exit"
    /\ exitCode' = IF command = "diff" /\ \E d \in DOMAIN results : results[d].updateRequired
                   THEN 3 ELSE 0
    /\ UNCHANGED <<ctxFixed, filter, templateBasedList, platformBasedList, stdout, fileIdx,
                   inputs, trace, results, updateRequired, changeset, err>>

NextContexts ==
    \/ NewCompareOptions
    \/ CallCommand
    \/ RangeNext
    \/ ContextFilter
    \/ ReadDir
    \/ ProcessTemplate
    \/ TemplatesDone
    \/ ExportPlatform
    \/ ContextCompare
    \/ ContextApply
    \/ CommandReturn

SpecContexts == ContextsInit /\ [][NextContexts]_vars

(***************************************************************************)
(* Properties.                                                             *)
(***************************************************************************)
C == DOMAIN platformBasedList
D == DOMAIN templateBasedList

\* calculateChangeset has returned after assembling both lists
Assembled ==
    /\ pc \in {"returned", "confirm", "apply", "exit"}
    /\ err \in {"", "ImmutableFieldChanged"}

\* calculateChangeset refused to continue (part_000 85-113)
Refused == D = {} /\ ~compareOptions.Force

\* calculateChangeset has returned from the call of compare
Compared == Assembled /\ ~Refused

\* the leaf l of key k differs and no preserve pointer covers it
Differs(k, l) ==
    /\ templateBasedList[k][l] # platformBasedList[k][l]
    /\ \A p \in compareOptions.PathsToPreserve :
          ~(/\ p.kind \in {"*", k[1]}
            /\ p.name \in {"*", k[2]}
            /\ Len(p.path) <= Len(l)
            /\ SubSeq(l, 1, Len(p.path)) = p.path)

BucketNames == {"Noop", "Create", "Update", "Delete", "Recreate"}

KeysOf(bucket) == { bucket[i].Key : i \in 1..Len(bucket) }

\* C1: when the desired list is empty, the current list is not and Force is
\* not set, the changeset calculateChangeset returns holds no Delete item.
C1_SafetyRail ==
    (Assembled /\ D = {} /\ C # {} /\ ~compareOptions.Force)
        => (changeset.Delete = <<>> /\ err = "")

C1_Witness ==
    /\ Assembled /\ D = {} /\ C # {}
    /\ ~compareOptions.Force /\ ~compareOptions.UpsertOnly
    /\ pc = "returned"

\* C2 as claimed: whenever calculateChangeset returns without error, the
\* changeset is blank (updateRequired is false) iff the two lists are equal.
C2_BlankIffEqual ==
    (Assembled /\ err = "")
        => (~updateRequired <=> templateBasedList = platformBasedList)

\* the desired keys are all current and differ from them at preserved paths
\* only, and no current key is missing from the desired list unless
\* UpsertOnly is set
Converged ==
    /\ D \subseteq C
    /\ \A k \in D : \A l \in Leaves : ~Differs(k, l)
    /\ compareOptions.UpsertOnly \/ C \subseteq D

\* C2 amended: whenever calculateChangeset returns without error, the
\* changeset is blank iff it refused to continue (desired list empty without
\* Force) or the lists have converged: every desired key is current with
\* differences at preserved paths only and, unless UpsertOnly is set, every
\* current key is desired; updateRequired is the negation of Blank.
C2_BlankIffConverged ==
    (Assembled /\ err = "")
        => /\ updateRequired = ~Blank(changeset)
           /\ ~updateRequired <=> (Refused \/ Converged)

C2_Witness ==
    /\ Assembled /\ err = "" /\ ~updateRequired
    /\ ~Refused
    /\ D # {}
    /\ compareOptions.UpsertOnly
    /\ ~(C \subseteq D)

\* C3: the status command exits with 3 exactly when the changeset was
\* computed without error and holds drift, with 1 exactly when an error
\* occurred, and with 0 exactly when there is neither error nor drift.
C3_StatusExitCodes ==
    (command = "status" /\ pc = "exit")
        => /\ exitCode = 3 <=> (err = "" /\ ~Blank(changeset))
           /\ exitCode = 1 <=> err # ""
           /\ exitCode = 0 <=> (err = "" /\ Blank(changeset))
           /\ exitCode \in {0, 1, 3}

C3_Witness ==
    /\ command = "status" /\ pc = "exit"
    /\ exitCode = 3
    /\ changeset.Update # <<>>

\* C4: with UpsertOnly set the Delete bucket is empty, the summary prints a
\* delete count of 0, and apply issues no delete for a resource that is in
\* the current list only.
C4_UpsertOnly ==
    compareOptions.UpsertOnly
        => /\ changeset.Delete = <<>>
           /\ \A i \in 1..Len(stdout) :
                 stdout[i][1] = "Summary" => stdout[i][2].toDelete = 0
           /\ \A i \in 1..Len(calls) :
                 ~(calls[i].op = "Delete" /\ calls[i].key \in C \ D)

C4_Witness ==
    /\ compareOptions.UpsertOnly
    /\ Compared /\ err = ""
    /\ C \ D # {}
    /\ pc = "exit"
    /\ calls # <<>>
    /\ \E i \in 1..Len(stdout) : stdout[i][1] = "Summary"

\* the number of buckets of the changeset that hold the key k
Occurrences(k) == Cardinality({ b \in BucketNames : k \in KeysOf(changeset[b]) })

Covers(p, k, path) ==
    /\ p.kind \in {"*", k[1]}
    /\ p.name \in {"*", k[2]}
    /\ Len(p.path) <= Len(path)
    /\ SubSeq(path, 1, Len(p.path)) = p.path

ImmutableChange(k) ==
    /\ k \in C \cap D
    /\ \E l \in Leaves :
          /\ Differs(k, l)
          /\ \E q \in ImmutablePaths(k[1]) :
                /\ Len(q) <= Len(l)
                /\ \A i \in 1..Len(q) : q[i] \in {"*", l[i]}

\* C7: when a key of both lists has a remaining patch on an immutable path,
\* then without AllowRecreate calculateChangeset returns ImmutableFieldChanged
\* with updateRequired false, nothing is printed per item, no summary, the
\* command exits 1 and no mutation is issued; with AllowRecreate there is no
\* error and the key is classified Recreate.  The error has no other cause.
C7_ImmutableFields ==
    /\ (Compared /\ \E k \in C \cap D : ImmutableChange(k))
          => IF compareOptions.AllowRecreate
             THEN /\ err = ""
                  /\ \A k \in C \cap D :
                        ImmutableChange(k) <=> k \in KeysOf(changeset.Recreate)
             ELSE /\ err = "ImmutableFieldChanged"
                  /\ ~updateRequired
                  /\ stdout = <<>>
                  /\ calls = <<>>
                  /\ pc \in {"returned", "exit"}
                  /\ pc = "exit" => exitCode = 1
    /\ err = "ImmutableFieldChanged"
          => /\ ~compareOptions.AllowRecreate
             /\ \E k \in C \cap D : ImmutableChange(k)

C7_Witness ==
    /\ err = "ImmutableFieldChanged"
    /\ command = "status"
    /\ pc = "exit"
    /\ exitCode = 1
    /\ \E k \in C \cap D : k[1] = "PersistentVolumeClaim" /\ Differs(k, Ports)

\* C8: UpdateRemote runs only for a changeset that is not blank and only in
\* non-interactive mode or after an affirmative answer; any other answer
\* ends the command with no mutation; in non-interactive mode nobody is
\* asked.
C8_ConfirmationGate ==
    /\ (pc = "apply" \/ calls # <<>>)
          => /\ command = "update"
             /\ err = ""
             /\ ~Blank(changeset)
             /\ globalOptions.NonInteractive \/ confirmation = "yes"
    /\ confirmation = "no" => (calls = <<>> /\ pc = "exit" /\ exitCode = 0)
    /\ globalOptions.NonInteractive => (confirmation = "none" /\ pc # "confirm")

C8_Witness ==
    /\ ~globalOptions.NonInteractive
    /\ confirmation = "yes"
    /\ calls # <<>>

\* the bucket the adapter calls of a phase come from
PhaseBucket(phase) ==
    CASE phase = 1 -> "Delete"
      [] phase \in {2, 4} -> "Recreate"
      [] phase = 3 -> "Create"
      [] phase = 5 -> "Update"

PhaseOp(phase) ==
    CASE phase \in {1, 2} -> "Delete"
      [] phase \in {3, 4} -> "Create"
      [] phase = 5 -> "Patch"

\* C9: the adapter calls of an apply run come in the order Delete,
\* Recreate-delete, Create, Recreate-create, Update, and when a call of one
\* phase is issued every item of every earlier phase has been attempted (the
\* create of a recreation whose delete failed is not attempted).
C9_ApplyOrder ==
    \A j \in 1..Len(calls) :
       /\ calls[j].phase \in 1..5
       /\ calls[j].op = PhaseOp(calls[j].phase)
       /\ calls[j].key \in KeysOf(changeset[PhaseBucket(calls[j].phase)])
       /\ \A i \in 1..(j - 1) : calls[i].phase <= calls[j].phase /\ calls[i] # calls[j]
       /\ \A ph \in 1..(calls[j].phase - 1) : \A k \in KeysOf(changeset[PhaseBucket(ph)]) :
             \/ \E i \in 1..(j - 1) : calls[i].phase = ph /\ calls[i].key = k
             \/ ph = 4 /\ k \in FailedKeys

C9_Witness ==
    /\ Len(calls) = 3
    /\ calls[1].phase = 2
    /\ calls[2].phase = 3
    /\ calls[3].phase = 4

\* C10 as claimed: an apply run in which an item failed does not end with
\* exit code 0.
C10_FailureExitsNonZero ==
    (command = "update" /\ pc = "exit" /\ failed # {}) => exitCode # 0

(***************************************************************************)
(* Properties of getFilter, on the export command (SpecExport).            *)
(***************************************************************************)
LoginError == "You need to login with 'oc login' first."

\* getFilter has returned to the export command
AfterGetFilter ==
    /\ command = "export"
    /\ pc \in {"export", "exit"}
    /\ err # LoginError

\* the lower-case kind tokens of a resource argument, in order
Tokens(arg) == [i \in 1..Len(arg) |-> ToLower(arg[i].kind)]
UnknownTokens(arg) == SelectSeq(Tokens(arg), LAMBDA t : t \notin DOMAIN kindMapping)
IsKindList(arg) == Len(arg) > 0 /\ \A i \in 1..Len(arg) : ~arg[i].slash
IsKindName(arg) == Len(arg) = 1 /\ arg[1].slash

\* the short aliases of spec.md 4.2 and the full kind names they stand for
Aliases == <<"dc", "bc", "svc", "is", "pvc", "cm", "sa", "rb">>
FullNames ==
    <<"deploymentconfig", "buildconfig", "service", "imagestream",
      "persistentvolumeclaim", "configmap", "serviceaccount", "rolebinding">>
CanonicalKinds ==
    <<"DeploymentConfig", "BuildConfig", "Service", "ImageStream",
      "PersistentVolumeClaim", "ConfigMap", "ServiceAccount", "RoleBinding">>

\* getFilter returned an error and no filter
Rejected == err # "" /\ err # "Could not export resources as template." /\ filter = NoFilter

\* C14 as claimed: a resource argument with a kind token that is not in the
\* kind table, be it a kind list or of the form kind/name, makes getFilter
\* return an error and no filter, and the error of a kind list names every
\* unknown token.
C14_UnknownKindsRejected ==
    (AfterGetFilter /\ UnknownTokens(exportOptions.Resource) # <<>>) =>
       /\ Rejected
       /\ IsKindList(exportOptions.Resource) =>
             errKinds = UnknownTokens(exportOptions.Resource)

\* C15 as claimed: each of the aliases dc, bc, svc, is, pvc, cm, sa and rb,
\* in any letter case, is accepted and gives the filter of its canonical
\* kind, the same filter the full kind name gives.
C15_AliasTable ==
    \A i \in 1..Len(Aliases) :
       (/\ AfterGetFilter
        /\ Len(exportOptions.Resource) = 1
        /\ ~exportOptions.Resource[1].slash
        /\ ToLower(exportOptions.Resource[1].kind) \in {Aliases[i], FullNames[i]}) =>
          /\ ~Rejected
          /\ filter = [Kinds |-> <<CanonicalKinds[i]>>, Name |-> <<>>,
                       Label |-> exportOptions.Selector]

\* C19: for a list of known kind tokens the filter's Kinds holds the
\* canonical kind of every token once, in ascending order, and no Name, so it
\* depends on the set of kinds the tokens stand for only; an empty argument
\* gives empty Kinds and an empty Name; a kind/name argument with a comma is
\* rejected.
C19_CanonicalKinds ==
    AfterGetFilter =>
       LET arg == exportOptions.Resource
       IN /\ (IsKindList(arg) /\ UnknownTokens(arg) = <<>>) =>
                /\ ~Rejected
                /\ SeqToSet(filter.Kinds) = { kindMapping[t] : t \in SeqToSet(Tokens(arg)) }
                /\ \A i \in 1..(Len(filter.Kinds) - 1) :
                      RankIn(KindOrder, filter.Kinds[i]) < RankIn(KindOrder, filter.Kinds[i + 1])
                /\ filter.Name = <<>>
                /\ filter.Label = exportOptions.Selector
          /\ arg = <<>> =>
                /\ ~Rejected
                /\ filter = [Kinds |-> <<>>, Name |-> <<>>, Label |-> exportOptions.Selector]
          /\ (Len(arg) > 1 /\ \E i \in 1..Len(arg) : arg[i].slash) =>
                /\ Rejected
                /\ err = "You cannot target more than one resource name"

\* 'DC,pvc,dc' gave the kinds DeploymentConfig, PersistentVolumeClaim
C19_Witness ==
    /\ AfterGetFilter
    /\ Tokens(exportOptions.Resource) = <<"dc", "pvc", "dc">>
    /\ exportOptions.Resource[1].kind = "DC"
    /\ filter.Kinds = <<"DeploymentConfig", "PersistentVolumeClaim">>

(***************************************************************************)
(* Properties of the edit and re-encrypt commands (SpecSecrets).           *)
(***************************************************************************)
\* Render has returned the content to write
Rendered ==
    /\ command \in {"edit", "re-encrypt"}
    /\ \/ pc \in {"write", "writing"}
       \/ pc = "exit" /\ err \in {"", "Could not write file"}

\* the command ended after writing the whole file
Written == command \in {"edit", "re-encrypt"} /\ pc = "exit" /\ err = ""

\* the keys of a file and their decrypted values, in order
Plaintext(file) ==
    [i \in 1..Len(file) |->
        BufferLine(file[i].Key, file[i].IsSecret,
                   IF file[i].IsSecret THEN file[i].Envelope.Plain ELSE file[i].Value)]

Envelopes(file) == { file[i].Envelope : i \in { j \in 1..Len(file) : file[j].IsSecret } }

\* the lines of the file read that hold the key of l encrypted, with the
\* plaintext of l
SamePlaintext(l) ==
    { j \in 1..Len(fileAtStart) :
        /\ fileAtStart[j].Key = l.Key
        /\ fileAtStart[j].IsSecret
        /\ fileAtStart[j].Envelope.Plain = l.Value }

\* C11 as claimed: at every point of an edit or re-encrypt run, interrupted
\* or not, the parameter file on disk holds the complete old content or the
\* complete new content.
C11_AtomicWrite ==
    command \in {"edit", "re-encrypt"} =>
       \/ paramFile = fileAtStart
       \/ /\ pc \in {"write", "writing", "exit", "killed"}
          /\ paramFile = renderedContent

\* C12: what edit writes back holds, for every encrypted key whose plaintext
\* the editor left as it was, the envelope of the file read, and for every
\* encrypted key that is new or has another plaintext an envelope that is
\* not in the file read; when the buffer comes back as it went out the
\* content written is the file read, line for line.
C12_EncryptedStability ==
    (Rendered /\ command = "edit") =>
       /\ Plaintext(renderedContent) = editedContent
       /\ \A i \in 1..Len(renderedContent) :
             renderedContent[i].IsSecret =>
                IF SamePlaintext(editedContent[i]) # {}
                THEN \E j \in SamePlaintext(editedContent[i]) :
                        renderedContent[i].Envelope = fileAtStart[j].Envelope
                ELSE renderedContent[i].Envelope \notin Envelopes(fileAtStart)
       /\ editedContent = Plaintext(fileAtStart) => renderedContent = fileAtStart
       /\ Written => paramFile = renderedContent

\* an edit that changed the plaintext of the second of two encrypted keys
C12_Witness ==
    /\ Written
    /\ command = "edit"
    /\ Len(fileAtStart) = 2
    /\ Len(paramFile) = 2
    /\ fileAtStart[1].IsSecret /\ fileAtStart[2].IsSecret
    /\ paramFile[1] = fileAtStart[1]
    /\ paramFile[2].IsSecret
    /\ paramFile[2].Key = fileAtStart[2].Key
    /\ paramFile[2].Envelope.Plain # fileAtStart[2].Envelope.Plain

\* C13: what re-encrypt writes holds no envelope of the file read, and the
\* same keys with the same decrypted values in the same order; when the
\* file cannot be read it is not written.
C13_ReEncrypt ==
    command = "re-encrypt" =>
       /\ Rendered =>
             /\ Envelopes(renderedContent) \cap Envelopes(fileAtStart) = {}
             /\ Plaintext(renderedContent) = Plaintext(fileAtStart)
       /\ Written => paramFile = renderedContent
       /\ err = "Could not read file" => paramFile = fileAtStart

\* a re-encrypt of a file with an encrypted key, written
C13_Witness ==
    /\ Written
    /\ command = "re-encrypt"
    /\ \E i \in 1..Len(fileAtStart) :
          /\ fileAtStart[i].IsSecret
          /\ paramFile[i].IsSecret
          /\ paramFile[i].Envelope # fileAtStart[i].Envelope
          /\ paramFile[i].Envelope.Plain = fileAtStart[i].Envelope.Plain

(***************************************************************************)
(* Properties of diff and apply over context directories (SpecContexts).   *)
(***************************************************************************)
OverContexts == command \in {"diff", "apply"}

StageRank(op) ==
    CASE op = "filter" -> 1
      [] op = "process" -> 2
      [] op = "export" -> 3
      [] op = "compare" -> 4
      [] op = "mutate" -> 5

\* the calls that reach the template processor or the platform
SideEffects == {"process", "export", "mutate"}

\* the positions of the trace that belong to the context c
EventsOf(c) == { i \in 1..Len(trace) : trace[i].ctx = c }

\* the files of the directory of c that are templates and come before the
\* position n of the listing
TemplatesBefore(c, n) ==
    { TemplateFiles(c)[i] : i \in { j \in 1..(n - 1) : Matched(TemplateFiles(c)[j]) } }

\* the template f of c was processed without error before position j
ProcessedBefore(c, f, j) ==
    \E i \in 1..(j - 1) :
       trace[i].ctx = c /\ trace[i].op = "process" /\ trace[i].file = f /\ trace[i].ok

OptionsError == "Options could not be processed"

\* C16: no stage of any context runs before the option set of every context
\* directory is built, so a run that ends with an options error has
\* processed no template, exported nothing and changed nothing; and a
\* context whose filter could not be built has no call to the template
\* processor or the platform.
C16_ConfigErrorsFirst ==
    OverContexts =>
       /\ trace # << >> => DOMAIN optionSets = SeqToSet(globalOptions.ContextDirs)
       /\ err = OptionsError => trace = << >>
       /\ \A c \in DOMAIN results :
             results[c].stage = "filter" =>
                \A i \in EventsOf(c) : trace[i].op \notin SideEffects

\* the options of the second of two contexts could not be built
C16_Witness ==
    /\ OverContexts
    /\ pc = "exit"
    /\ err = OptionsError
    /\ Len(globalOptions.ContextDirs) = 2
    /\ optIdx = 2
    /\ DOMAIN optionSets # {}
    /\ trace = << >>

RECURSIVE OutputsOf(_, _)
OutputsOf(c, n) ==
    IF n = 0 THEN << >>
    ELSE IF trace[n].ctx = c /\ trace[n].op = "process" /\ trace[n].ok
    THEN Append(OutputsOf(c, n - 1), trace[n].out)
    ELSE OutputsOf(c, n - 1)

\* what the platform exported for c
ExportOf(c) ==
    trace[CHOOSE i \in EventsOf(c) : trace[i].op = "export"].out

\* the changeset of c as its own option set, templates and export give it
OwnChangeset(c) ==
    calculateChangeset(
        NewPlatformBasedResourceList(
            getFilter(optionSets[c].Resource, optionSets[c].Selector).filter, ExportOf(c)),
        NewTemplateBasedResourceList(
            getFilter(optionSets[c].Resource, optionSets[c].Selector).filter,
            OutputsOf(c, Len(trace))),
        optionSets[c])

====
